---------------------------- MODULE Spec2Model ----------------------------
(***************************************************************************)
(* A model of bili_live_src (src/src/main.rs): resolution of the room id,  *)
(* quality and format from the command line or from standard input, the   *)
(* classification of the API response in fetch_stream, the flattening of   *)
(* the stream descriptors in parse_stream, and the printing of the URLs.   *)
(*                                                                         *)
(* Strings are sequences of one-character strings.  A u32 is held as its   *)
(* canonical decimal digit sequence (no leading zeros), so that values up  *)
(* to and beyond 4294967295 are compared exactly.                          *)
(***************************************************************************)
EXTENDS Integers, Sequences, FiniteSets, TLC

(***************************************************************************)
(* Bounds of the model.                                                    *)
(***************************************************************************)
\* read_line calls explored in one prompt loop
MaxReads == 3
\* descriptors in a generated stream array
MaxStream == 2
\* entries in a generated format array
MaxFormat == 1
\* entries in a generated codec array
MaxCodec == 1
\* entries in a generated url_info array
MaxInfo == 2

(***************************************************************************)
(* Option and Result values.                                               *)
(***************************************************************************)
None == [some |-> FALSE]
Some(x) == [some |-> TRUE, v |-> x]
Ok(x) == [ok |-> TRUE, v |-> x]
Err(e) == [ok |-> FALSE, e |-> e]

Max(S) == CHOOSE m \in S : \A n \in S : n <= m
Min(S) == CHOOSE m \in S : \A n \in S : m <= n

(***************************************************************************)
(* Characters and string literals of the source.                           *)
(***************************************************************************)
AsciiDigits == <<"0","1","2","3","4","5","6","7","8","9">>
IsAsciiDigit(c) == \E i \in 1..10 : AsciiDigits[i] = c
DigitVal(c) == (CHOOSE i \in 1..10 : AsciiDigits[i] = c) - 1
\* one character that is a decimal digit of Unicode and not of ASCII
\* (ARABIC-INDIC DIGIT THREE); the regex class \d is Unicode-aware
UniDigit == "U+0663"
IsRegexDigit(c) == IsAsciiDigit(c) \/ c = UniDigit
IsWhitespace(c) == c \in {" ", "\n"}
LF == <<"\n">>

S_low == <<"l","o","w">>
S_high == <<"h","i","g","h">>
S_m3u8 == <<"m","3","u","8">>
S_flv == <<"f","l","v">>
S_http == <<"h","t","t","p">>
S_colon_slashes == <<":","/","/">>
S_live == <<"l","i","v","e">>
S_bilibili == <<"b","i","l","i","b","i","l","i">>
S_com_slash == <<"c","o","m","/">>
S_null == <<"n","u","l","l">>
U32_MAX == <<"4","2","9","4","9","6","7","2","9","5">>

\* the Err(&'static str) values of fetch_stream
NetworkError == "NetworkError"
ResponseFormatError == "ResponseFormatError"
ApiError == "ApiError"
NotLiveError == "NotLiveError"
\* the message of a rejected room id line
RoomIdFormatError == "RoomIdFormatError"

(***************************************************************************)
(* str::trim and str::parse::<u32>.                                        *)
(***************************************************************************)
Trim(s) ==
  LET keep == {i \in 1..Len(s) : ~IsWhitespace(s[i])}
  IN  IF keep = {} THEN <<>> ELSE SubSeq(s, Min(keep), Max(keep))

\* the digit sequence without its leading zeros ("0" for all zeros)
StripZeros(d) ==
  LET nz == {i \in 1..Len(d) : d[i] # "0"}
  IN  IF nz = {} THEN <<"0">> ELSE SubSeq(d, Min(nz), Len(d))

\* a <= b for canonical digit sequences
LeqDigits(a, b) ==
  \/ Len(a) < Len(b)
  \/ /\ Len(a) = Len(b)
     /\ \/ a = b
        \/ \E i \in 1..Len(a) :
              /\ SubSeq(a, 1, i - 1) = SubSeq(b, 1, i - 1)
              /\ DigitVal(a[i]) < DigitVal(b[i])

\* u32::from_str: an optional '+', then one or more ASCII digits, the value
\* at most u32::MAX
ParseU32(s) ==
  LET body == IF s # <<>> /\ s[1] = "+" THEN Tail(s) ELSE s
  IN  IF s = <<>> THEN Err("Empty")
      ELSE IF body = <<>> THEN Err("InvalidDigit")
      ELSE IF \E i \in 1..Len(body) : ~IsAsciiDigit(body[i]) THEN Err("InvalidDigit")
      ELSE IF ~LeqDigits(StripZeros(body), U32_MAX) THEN Err("PosOverflow")
      ELSE Ok(StripZeros(body))

(***************************************************************************)
(* Regex::new(r"(http[s]?://)?(live.bilibili.com/)?(\d+)").captures:       *)
(* an unanchored leftmost-first search.                                    *)
(***************************************************************************)
LitAt(s, i, lit) ==
  /\ i >= 1
  /\ i + Len(lit) - 1 <= Len(s)
  /\ SubSeq(s, i, i + Len(lit) - 1) = lit

\* '.' matches any character but a line feed
DotAt(s, i) == i >= 1 /\ i <= Len(s) /\ s[i] # "\n"

\* the index after a match of (http[s]?://) at i, 0 when it does not match
Group1End(s, i) ==
  IF LitAt(s, i, S_http) /\ LitAt(s, i + 4, <<"s">>) /\ LitAt(s, i + 5, S_colon_slashes)
  THEN i + 8
  ELSE IF LitAt(s, i, S_http) /\ LitAt(s, i + 4, S_colon_slashes) THEN i + 7
  ELSE 0

\* the index after a match of (live.bilibili.com/) at i, 0 when it does not match
Group2End(s, i) ==
  IF /\ LitAt(s, i, S_live) /\ DotAt(s, i + 4)
     /\ LitAt(s, i + 5, S_bilibili) /\ DotAt(s, i + 13)
     /\ LitAt(s, i + 14, S_com_slash)
  THEN i + 18
  ELSE 0

\* the last index of the greedy \d+ run that starts at i (i - 1 when empty)
DigitRunEnd(s, i) ==
  LET ends == {j \in i..Len(s) : \A k \in i..j : IsRegexDigit(s[k])}
  IN  IF ends = {} THEN i - 1 ELSE Max(ends)

\* where group 3 starts in the match that begins at i, 0 when none begins
\* there; the optional groups are greedy, so present is tried before absent
MatchAt(s, i) ==
  LET g1 == Group1End(s, i)
      g12 == IF g1 # 0 THEN Group2End(s, g1) ELSE 0
      g2 == Group2End(s, i)
      HasDigit(p) == p # 0 /\ p <= Len(s) /\ IsRegexDigit(s[p])
  IN  IF HasDigit(g12) THEN g12
      ELSE IF HasDigit(g1) THEN g1
      ELSE IF HasDigit(g2) THEN g2
      ELSE IF HasDigit(i) THEN i
      ELSE 0

\* caps.get(3) of the leftmost match, None when the regex matches nowhere
Captures(s) ==
  LET starts == {i \in 1..Len(s) : MatchAt(s, i) # 0}
  IN  IF starts = {} THEN None
      ELSE LET p == MatchAt(s, Min(starts))
           IN  Some(SubSeq(s, p, DigitRunEnd(s, p)))

(***************************************************************************)
(* serde_json::Value.  An object is a function from its keys; a key that   *)
(* is not in its domain is a field the JSON text does not hold.  Each      *)
(* kind of value keeps its payload in a field of its own.                  *)
(***************************************************************************)
Null == [t |-> "null"]
JInt(n) == [t |-> "int", i |-> n]
JStr(s) == [t |-> "str", s |-> s]
JArr(a) == [t |-> "arr", a |-> a]
JObj(o) == [t |-> "obj", o |-> o]

\* value[key]: Null when value is no object or has no such key
Index(val, key) ==
  IF val.t = "obj" /\ key \in DOMAIN val.o THEN val.o[key] ELSE Null
as_i64(val) == IF val.t = "int" THEN Some(val.i) ELSE None
as_array(val) == IF val.t = "arr" THEN Some(val.a) ELSE None

RECURSIVE Concat(_)
\* the concatenation of a sequence of sequences
Concat(ss) == IF ss = <<>> THEN <<>> ELSE Head(ss) \o Concat(Tail(ss))

RECURSIVE NatDigits(_)
NatDigits(n) ==
  IF n < 10 THEN <<AsciiDigits[n + 1]>>
  ELSE NatDigits(n \div 10) \o <<AsciiDigits[(n % 10) + 1]>>

\* the JSON text of one character of a string
EscapeChar(c) ==
  IF c = "\"" THEN <<"\\", "\"">>
  ELSE IF c = "\\" THEN <<"\\", "\\">>
  ELSE IF c = "\n" THEN <<"\\", "n">>
  ELSE <<c>>

\* Value::to_string: the compact JSON text of the value (the leaf values
\* of the model are strings, integers and missing fields)
to_string(val) ==
  CASE val.t = "str" ->
         <<"\"">> \o Concat([k \in 1..Len(val.s) |-> EscapeChar(val.s[k])]) \o <<"\"">>
    [] val.t = "int" ->
         IF val.i < 0 THEN <<"-">> \o NatDigits(0 - val.i) ELSE NatDigits(val.i)
    [] val.t = "null" -> S_null

\* str::trim_matches('"')
trim_matches(s) ==
  LET keep == {i \in 1..Len(s) : s[i] # "\""}
  IN  IF keep = {} THEN <<>> ELSE SubSeq(s, Min(keep), Max(keep))

\* str::contains
Contains(s, sub) ==
  \E i \in 1..(Len(s) - Len(sub) + 1) : SubSeq(s, i, i + Len(sub) - 1) = sub

(***************************************************************************)
(* Format and Quality.                                                     *)
(***************************************************************************)
Format_from_str(s) ==
  IF s = S_m3u8 THEN Ok("M3u8")
  ELSE IF s = S_flv THEN Ok("Flv")
  ELSE Err("")
Format_value(f) == IF f = "M3u8" THEN S_m3u8 ELSE S_flv

Quality_from_str(s) ==
  IF s = S_low THEN Ok("Low")
  ELSE IF s = S_high THEN Ok("High")
  ELSE Err("")
Quality_value(q) == IF q = "Low" THEN <<"0">> ELSE <<"1","0","0","0","0">>

\* Result::ok
ok(r) == IF r.ok THEN Some(r.v) ELSE None
\* Option::unwrap_or("".to_string()) of a flag
unwrap_or_empty(o) == IF o.some THEN o.v ELSE <<>>

(***************************************************************************)
(* fetch_stream, from the HTTP outcome on.  An outcome is                  *)
(*   [net |-> "err"]                    reqwest::get failed                *)
(*   [net |-> "body_err"]               the body could not be read         *)
(*   [net |-> "ok", text |-> Err(_)]    the body is not JSON               *)
(*   [net |-> "ok", text |-> Ok(val)]   the body is the JSON value val     *)
(* The result is a returned Err, a returned Ok or a panic (an unwrap of    *)
(* None), with the fields of the body read on the way.                     *)
(***************************************************************************)
FetchErr(e, acc) == [kind |-> "err", e |-> e, accessed |-> acc]
FetchPanic(acc) == [kind |-> "panic", accessed |-> acc]
FetchOk(s, acc) == [kind |-> "ok", stream |-> s, accessed |-> acc]

\* fetch_stream with the live_status test placed before the code test
fetch_stream_live_first(r) ==
  IF r.net = "err" THEN FetchErr(NetworkError, {})
  ELSE IF r.net = "body_err" THEN FetchPanic({})
  ELSE IF ~r.text.ok THEN FetchErr(ResponseFormatError, {})
  ELSE
    LET resp == r.text.v
        code == as_i64(Index(resp, "code"))
        data == Index(resp, "data")
        live_status == as_i64(Index(data, "live_status"))
        stream == as_array(Index(Index(Index(data, "playurl_info"), "playurl"), "stream"))
        acc1 == {"data", "live_status"}
        acc2 == acc1 \cup {"code"}
        acc3 == acc2 \cup {"playurl_info", "playurl", "stream"}
    IN  IF ~live_status.some THEN FetchPanic(acc1)
        ELSE IF live_status.v = 0 THEN FetchErr(NotLiveError, acc1)
        ELSE IF ~code.some THEN FetchPanic(acc2)
        ELSE IF code.v # 0 THEN FetchErr(ApiError, acc2)
        ELSE IF ~stream.some THEN FetchPanic(acc3)
        ELSE FetchOk(stream.v, acc3)

fetch_stream(r) ==
  IF r.net = "err" THEN FetchErr(NetworkError, {})
  ELSE IF r.net = "body_err" THEN FetchPanic({})
  ELSE IF ~r.text.ok THEN FetchErr(ResponseFormatError, {})
  ELSE
    LET resp == r.text.v
        code == as_i64(Index(resp, "code"))
        data == Index(resp, "data")
        live_status == as_i64(Index(data, "live_status"))
        stream == as_array(Index(Index(Index(data, "playurl_info"), "playurl"), "stream"))
        acc1 == {"code"}
        acc2 == acc1 \cup {"data", "live_status"}
        acc3 == acc2 \cup {"playurl_info", "playurl", "stream"}
    IN  IF ~code.some THEN FetchPanic(acc1)
        ELSE IF code.v # 0 THEN FetchErr(ApiError, acc1)
        ELSE IF ~live_status.some THEN FetchPanic(acc2)
        ELSE IF live_status.v = 0 THEN FetchErr(NotLiveError, acc2)
        ELSE IF ~stream.some THEN FetchPanic(acc3)
        ELSE FetchOk(stream.v, acc3)

(***************************************************************************)
(* parse_stream.  None is a panic (as_array().unwrap() of a field that is  *)
(* missing or no array), Some(urls) the returned vector.                   *)
(***************************************************************************)
\* the flat_map of results that may have panicked
FlatMap(rs) ==
  IF \E k \in 1..Len(rs) : ~rs[k].some THEN None
  ELSE Some(Concat([k \in 1..Len(rs) |-> rs[k].v]))

\* the format! of one url_info entry i of codec c
url_of(c, i) ==
  trim_matches(to_string(Index(i, "host")))
    \o trim_matches(to_string(Index(c, "base_url")))
    \o trim_matches(to_string(Index(i, "extra")))

codec_urls(c) ==
  LET a == as_array(Index(c, "url_info"))
  IN  IF ~a.some THEN None ELSE Some([k \in 1..Len(a.v) |-> url_of(c, a.v[k])])

format_urls(f) ==
  LET a == as_array(Index(f, "codec"))
  IN  IF ~a.some THEN None ELSE FlatMap([k \in 1..Len(a.v) |-> codec_urls(a.v[k])])

descriptor_urls(s) ==
  LET a == as_array(Index(s, "format"))
  IN  IF ~a.some THEN None ELSE FlatMap([k \in 1..Len(a.v) |-> format_urls(a.v[k])])

\* parse_stream with a descriptor that cannot be flattened skipped
parse_stream_skip_malformed(stream) ==
  Some(Concat([k \in 1..Len(stream) |->
                 IF descriptor_urls(stream[k]).some THEN descriptor_urls(stream[k]).v
                 ELSE <<>>]))

parse_stream(stream) ==
  FlatMap([k \in 1..Len(stream) |-> descriptor_urls(stream[k])])

\* main's filter of the URLs by the format token
filter_urls(urls, f) ==
  SelectSeq(urls, LAMBDA u : Contains(u, Format_value(f)))

(***************************************************************************)
(* The inputs of a run: the command line, the lines typed on standard      *)
(* input and the HTTP outcome.                                             *)
(***************************************************************************)
\* the raw values of --room-id, --quality and --format (None: flag not given)
RoomFlags ==
  {None, Some(<<"7">>), Some(<<"0">>), Some(<<"a","b","c">>),
   Some(<<"4","2","9","4","9","6","7","2","9","6">>)}
QualityFlags == {None, Some(S_low), Some(S_high), Some(<<"m","e","d","i","u","m">>)}
FormatFlags == {None, Some(S_m3u8), Some(S_flv), Some(<<"m","p","4">>)}
ArgsSet == [room_id : RoomFlags, quality : QualityFlags, format : FormatFlags]

S_marker == S_live \o <<".">> \o S_bilibili \o <<".">> \o S_com_slash

\* what one read_line call appends: a line with its line feed, or nothing
\* at the end of the input
EndOfInput == <<>>
RoomInputs ==
  {EndOfInput,
   LF,
   <<"x">> \o LF,
   S_marker \o LF,
   <<"7">> \o LF,
   <<"0">> \o LF,
   <<"a","b","c","1","2","3">> \o LF,
   U32_MAX \o LF,
   <<"4","2","9","4","9","6","7","2","9","6">> \o LF,
   S_marker \o <<"7">> \o LF,
   S_http \o <<"s">> \o S_colon_slashes \o S_marker \o <<"7">> \o LF,
   <<"1","2"," ">> \o S_marker \o <<"4","5","6">> \o LF,
   <<UniDigit>> \o LF}
MenuInputs ==
  {EndOfInput,
   LF,
   <<"x">> \o LF,
   <<"1">> \o LF,
   <<"2">> \o LF,
   <<"+","1">> \o LF,
   <<" ","2"," ">> \o LF}

\* the set of sequences over S of length at most n
SeqsUpTo(S, n) == UNION {[1..k -> S] : k \in 0..n}

\* an object with the fields of base and, when given, the field key
ObjWith(base, key, opt) ==
  IF opt.some THEN JObj(base @@ (key :> opt.v)) ELSE JObj(base)

S_host == <<"h">>
BaseUrls == {JStr(<<"/","m","3","u","8">>), JStr(<<"/","f","l","v">>)}
Extras == {JStr(<<"?","x">>), JStr(<<"?","\\">>)}
Leafs ==
  {JObj([host |-> JStr(S_host), extra |-> e]) : e \in Extras}
    \cup {JObj([extra |-> JStr(<<"?","x">>)])}

\* the stream arrays generated within the bounds; a descriptor, format or
\* codec without its array field is one parse_stream cannot flatten
Codecs ==
  {JObj([base_url |-> b, url_info |-> JArr(a)]) :
      b \in BaseUrls, a \in SeqsUpTo(Leafs, MaxInfo)}
    \cup {JObj([base_url |-> b]) : b \in BaseUrls}
Formats ==
  {JObj([format_name |-> JStr(<<"t","s">>), codec |-> JArr(c)]) :
      c \in SeqsUpTo(Codecs, MaxCodec)}
    \cup {JObj([format_name |-> JStr(<<"t","s">>)])}
Descriptors ==
  {JObj([protocol_name |-> JStr(S_http), format |-> JArr(f)]) :
      f \in SeqsUpTo(Formats, MaxFormat)}
    \cup {JObj([protocol_name |-> JStr(S_http)])}
Streams == SeqsUpTo(Descriptors, MaxStream)

\* the stream arrays of the API responses of a whole run
D_m3u8 ==
  JObj([protocol_name |-> JStr(S_http),
        format |-> JArr(<<JObj([format_name |-> JStr(<<"t","s">>),
          codec |-> JArr(<<JObj([base_url |-> JStr(<<"/","m","3","u","8">>),
            url_info |-> JArr(<<JObj([host |-> JStr(S_host), extra |-> JStr(<<"?","x">>)]),
                                JObj([host |-> JStr(S_host), extra |-> JStr(<<"?","y">>)])>>)])>>)])>>)])
D_flv ==
  JObj([protocol_name |-> JStr(S_http),
        format |-> JArr(<<JObj([format_name |-> JStr(S_flv),
          codec |-> JArr(<<JObj([base_url |-> JStr(<<"/","f","l","v">>),
            url_info |-> JArr(<<JObj([host |-> JStr(S_host), extra |-> JStr(<<"?","x">>)])>>)])>>)])>>)])
D_no_format == JObj([protocol_name |-> JStr(S_http)])
D_url_info_null ==
  JObj([protocol_name |-> JStr(S_http),
        format |-> JArr(<<JObj([format_name |-> JStr(S_flv),
          codec |-> JArr(<<JObj([base_url |-> JStr(<<"/","f","l","v">>),
                                 url_info |-> Null])>>)])>>)])
MainStreams ==
  {<<>>, <<D_m3u8>>, <<D_m3u8, D_flv>>, <<D_m3u8, D_no_format>>, <<D_flv, D_url_info_null>>}

StreamFields == {None, Some(JStr(<<"x">>))} \cup {Some(JArr(st)) : st \in MainStreams}
PlayurlFields == {None} \cup {Some(ObjWith([cid |-> JInt(1)], "stream", st)) : st \in StreamFields}
PlayurlInfoFields ==
  {None, Some(Null)}
    \cup {Some(ObjWith([conf_json |-> JStr(<<>>)], "playurl", pu)) : pu \in PlayurlFields}
LiveStatusFields == {None, Some(JInt(0)), Some(JInt(1))}
DataFields ==
  {None} \cup
  {Some(ObjWith(ObjWith([uid |-> JInt(1)], "live_status", ls).o, "playurl_info", pi)) :
      ls \in LiveStatusFields, pi \in PlayurlInfoFields}
CodeFields == {None, Some(JInt(0)), Some(JInt(60004)), Some(JStr(<<"0">>))}
Bodies ==
  {ObjWith(ObjWith([ttl |-> JInt(1)], "code", c).o, "data", d) :
      c \in CodeFields, d \in DataFields}
Responses ==
  {[net |-> "err"], [net |-> "body_err"], [net |-> "ok", text |-> Err("syntax")]}
    \cup {[net |-> "ok", text |-> Ok(b)] : b \in Bodies}

(***************************************************************************)
(* The state of a run.                                                     *)
(***************************************************************************)
VARIABLES
  pc,         \* where the run is: "args", "room", "read_room_id", "quality",
              \* "read_quality", "format", "read_format", "fetch", "parse",
              \* "print", "exit"
  status,     \* "running", "ok" (main returned Ok), "err" (main returned Err),
              \* "usage" (Args::parse ended the process), "panic"
  args,       \* the command line
  is_cli,     \* main's is_cli
  room_id,    \* main's room_id: the flag's, then the resolved one
  quality,    \* main's quality, likewise
  format,     \* main's format, likewise
  line,       \* the String the current prompt loop reads into
  res,        \* the Result the current prompt loop tests
  reads,      \* read_line calls of the current prompt loop
  prompted,   \* the prompts printed so far
  resp,       \* the HTTP outcome of fetch_stream's request
  request,    \* the query parameters of the request
  accessed,   \* the fields of the body fetch_stream read
  err,        \* the Err main returned
  stream,     \* fetch_stream's Ok value
  urls,       \* parse_stream's value
  filtered,   \* the URLs the filter kept
  printed,    \* the URL lines printed
  paused      \* whether pause() ran

vars ==
  <<pc, status, args, is_cli, room_id, quality, format, line, res, reads, prompted,
    resp, request, accessed, err, stream, urls, filtered, printed, paused>>

inputVars == <<line, res, reads, prompted>>
fetchVars == <<resp, request, accessed, err, stream>>
outputVars == <<urls, filtered, printed, paused>>

NoResponse == [net |-> "none"]

Init ==
  /\ pc = "args"
  /\ status = "running"
  /\ args \in ArgsSet
  /\ is_cli = FALSE
  /\ room_id = None
  /\ quality = None
  /\ format = None
  /\ line = <<>>
  /\ res = Err("init")
  /\ reads = 0
  /\ prompted = {}
  /\ resp = NoResponse
  /\ request = None
  /\ accessed = {}
  /\ err = ""
  /\ stream = <<>>
  /\ urls = <<>>
  /\ filtered = <<>>
  /\ printed = <<>>
  /\ paused = FALSE

(***************************************************************************)
(* Args::parse and the first lines of main.                                *)
(***************************************************************************)
\* the value parser with a value that is no u32 taken as no flag
clap_room_id_lenient(flag) ==
  IF flag.some /\ ParseU32(flag.v).ok THEN Ok(Some(ParseU32(flag.v).v)) ELSE Ok(None)

\* clap's value parser of room_id: Option<u32> (a decimal number in the range
\* of u32); an Err makes Args::parse print the error and end the process
clap_room_id(flag) ==
  IF ~flag.some THEN Ok(None)
  ELSE IF ParseU32(flag.v).ok THEN Ok(Some(ParseU32(flag.v).v))
  ELSE Err("invalid value")

\* is_cli computed from the room id flag alone
IsCli_room_id_only(a) == a.room_id.some

IsCli(a) == a.format.some \/ a.quality.some \/ a.room_id.some

ParseArgs ==
  /\ pc = "args" /\ status = "running"
  /\ IF ~clap_room_id(args.room_id).ok
     THEN /\ status' = "usage"
          /\ pc' = "exit"
          /\ UNCHANGED <<is_cli, room_id, quality, format>>
     ELSE /\ is_cli' = IsCli(args)
          /\ format' = ok(Format_from_str(unwrap_or_empty(args.format)))
          /\ quality' = ok(Quality_from_str(unwrap_or_empty(args.quality)))
          /\ room_id' = clap_room_id(args.room_id).v
          /\ pc' = "room"
          /\ UNCHANGED status
  /\ UNCHANGED <<args, inputVars, fetchVars, outputVars>>

(***************************************************************************)
(* read_room_id.                                                           *)
(***************************************************************************)
\* the match on caps of one loop iteration, buf being the String read into:
\* the Result assigned to room_id, or a panic when parse::<u32>().unwrap()
\* fails
room_id_of(buf) ==
  LET caps == Captures(Trim(buf))
  IN  IF ~caps.some THEN [panic |-> FALSE, res |-> Err(RoomIdFormatError)]
      ELSE IF ~ParseU32(caps.v).ok THEN [panic |-> TRUE]
      ELSE [panic |-> FALSE, res |-> Ok(ParseU32(caps.v).v)]

MatchRoomId ==
  /\ pc = "room" /\ status = "running"
  /\ pc' = IF room_id.some THEN "quality" ELSE "read_room_id"
  /\ UNCHANGED <<status, args, is_cli, room_id, quality, format, inputVars,
                 fetchVars, outputVars>>

ReadRoomId ==
  /\ pc = "read_room_id" /\ status = "running"
  /\ ~res.ok
  /\ reads < MaxReads
  /\ \E inp \in RoomInputs :
        /\ line' = line \o inp
        /\ IF room_id_of(line \o inp).panic
           THEN status' = "panic" /\ UNCHANGED res
           ELSE res' = room_id_of(line \o inp).res /\ UNCHANGED status
  /\ reads' = reads + 1
  /\ prompted' = prompted \cup {"room"}
  /\ UNCHANGED <<pc, args, is_cli, room_id, quality, format, fetchVars, outputVars>>

ReturnRoomId ==
  /\ pc = "read_room_id" /\ status = "running"
  /\ res.ok
  /\ room_id' = Some(res.v)
  /\ pc' = "quality"
  /\ line' = <<>>
  /\ res' = Err("init")
  /\ reads' = 0
  /\ UNCHANGED <<status, args, is_cli, quality, format, prompted, fetchVars, outputVars>>

(***************************************************************************)
(* read_quality and read_format.                                           *)
(***************************************************************************)
\* the match on line.trim().parse::<u32>() of one loop iteration
menu_choice(buf, first, second) ==
  LET n == ParseU32(Trim(buf))
  IN  IF n.ok /\ n.v = <<"1">> THEN Ok(first)
      ELSE IF n.ok /\ n.v = <<"2">> THEN Ok(second)
      ELSE Err("")

quality_of(buf) == menu_choice(buf, "Low", "High")
format_of(buf) == menu_choice(buf, "M3u8", "Flv")

MatchQuality ==
  /\ pc = "quality" /\ status = "running"
  /\ pc' = IF quality.some THEN "format" ELSE "read_quality"
  /\ UNCHANGED <<status, args, is_cli, room_id, quality, format, inputVars,
                 fetchVars, outputVars>>

ReadQuality ==
  /\ pc = "read_quality" /\ status = "running"
  /\ ~res.ok
  /\ reads < MaxReads
  /\ \E inp \in MenuInputs :
        /\ line' = line \o inp
        /\ res' = quality_of(line \o inp)
  /\ reads' = reads + 1
  /\ prompted' = prompted \cup {"quality"}
  /\ UNCHANGED <<pc, status, args, is_cli, room_id, quality, format, fetchVars,
                 outputVars>>

ReturnQuality ==
  /\ pc = "read_quality" /\ status = "running"
  /\ res.ok
  /\ quality' = Some(res.v)
  /\ pc' = "format"
  /\ line' = <<>>
  /\ res' = Err("init")
  /\ reads' = 0
  /\ UNCHANGED <<status, args, is_cli, room_id, format, prompted, fetchVars, outputVars>>

MatchFormat ==
  /\ pc = "format" /\ status = "running"
  /\ pc' = IF format.some THEN "fetch" ELSE "read_format"
  /\ UNCHANGED <<status, args, is_cli, room_id, quality, format, inputVars,
                 fetchVars, outputVars>>

ReadFormat ==
  /\ pc = "read_format" /\ status = "running"
  /\ ~res.ok
  /\ reads < MaxReads
  /\ \E inp \in MenuInputs :
        /\ line' = line \o inp
        /\ res' = format_of(line \o inp)
  /\ reads' = reads + 1
  /\ prompted' = prompted \cup {"format"}
  /\ UNCHANGED <<pc, status, args, is_cli, room_id, quality, format, fetchVars,
                 outputVars>>

ReturnFormat ==
  /\ pc = "read_format" /\ status = "running"
  /\ res.ok
  /\ format' = Some(res.v)
  /\ pc' = "fetch"
  /\ line' = <<>>
  /\ res' = Err("init")
  /\ reads' = 0
  /\ UNCHANGED <<status, args, is_cli, room_id, quality, prompted, fetchVars, outputVars>>

(***************************************************************************)
(* The rest of main: fetch, flatten, filter, print, pause.                 *)
(***************************************************************************)
FetchStream ==
  /\ pc = "fetch" /\ status = "running"
  /\ \E r \in Responses :
        /\ resp' = r
        /\ accessed' = fetch_stream(r).accessed
        /\ CASE fetch_stream(r).kind = "err" ->
                  /\ status' = "err"
                  /\ err' = fetch_stream(r).e
                  /\ pc' = "exit"
                  /\ UNCHANGED stream
             [] fetch_stream(r).kind = "panic" ->
                  /\ status' = "panic"
                  /\ UNCHANGED <<err, pc, stream>>
             [] fetch_stream(r).kind = "ok" ->
                  /\ stream' = fetch_stream(r).stream
                  /\ pc' = "parse"
                  /\ UNCHANGED <<status, err>>
  /\ request' = Some([qn |-> Quality_value(quality.v), room_id |-> room_id.v])
  /\ UNCHANGED <<args, is_cli, room_id, quality, format, inputVars, outputVars>>

ParseStream ==
  /\ pc = "parse" /\ status = "running"
  /\ IF ~parse_stream(stream).some
     THEN /\ status' = "panic"
          /\ UNCHANGED <<pc, urls, filtered>>
     ELSE /\ urls' = parse_stream(stream).v
          /\ filtered' = filter_urls(parse_stream(stream).v, format.v)
          /\ pc' = "print"
          /\ UNCHANGED status
  /\ UNCHANGED <<args, is_cli, room_id, quality, format, inputVars, fetchVars,
                 printed, paused>>

PrintUrl ==
  /\ pc = "print" /\ status = "running"
  /\ Len(printed) < Len(filtered)
  /\ printed' = Append(printed, trim_matches(filtered[Len(printed) + 1]))
  /\ UNCHANGED <<pc, status, args, is_cli, room_id, quality, format, inputVars,
                 fetchVars, urls, filtered, paused>>

Pause ==
  /\ pc = "print" /\ status = "running"
  /\ Len(printed) = Len(filtered)
  /\ ~is_cli
  /\ paused' = TRUE
  /\ pc' = "exit"
  /\ status' = "ok"
  /\ UNCHANGED <<args, is_cli, room_id, quality, format, inputVars, fetchVars,
                 urls, filtered, printed>>

Exit ==
  /\ pc = "print" /\ status = "running"
  /\ Len(printed) = Len(filtered)
  /\ is_cli
  /\ pc' = "exit"
  /\ status' = "ok"
  /\ UNCHANGED <<args, is_cli, room_id, quality, format, inputVars, fetchVars,
                 outputVars>>

Next ==
  \/ ParseArgs
  \/ MatchRoomId \/ ReadRoomId \/ ReturnRoomId
  \/ MatchQuality \/ ReadQuality \/ ReturnQuality
  \/ MatchFormat \/ ReadFormat \/ ReturnFormat
  \/ FetchStream \/ ParseStream \/ PrintUrl \/ Pause \/ Exit

Spec == Init /\ [][Next]_vars

(***************************************************************************)
(* parse_stream and the output on generated stream arrays: the run starts  *)
(* at the call of parse_stream.                                            *)
(***************************************************************************)
InitParse ==
  /\ pc = "parse"
  /\ status = "running"
  /\ args = [room_id |-> None, quality |-> None, format |-> None]
  /\ is_cli \in BOOLEAN
  /\ room_id = Some(<<"7">>)
  /\ quality = Some("Low")
  /\ format \in {Some("M3u8"), Some("Flv")}
  /\ line = <<>>
  /\ res = Err("init")
  /\ reads = 0
  /\ prompted = {}
  /\ resp = NoResponse
  /\ request = None
  /\ accessed = {}
  /\ err = ""
  /\ stream \in Streams
  /\ urls = <<>>
  /\ filtered = <<>>
  /\ printed = <<>>
  /\ paused = FALSE

NextParse == ParseStream \/ PrintUrl \/ Pause \/ Exit

SpecParse == InitParse /\ [][NextParse]_vars

(***************************************************************************)
(* What the properties below speak of.                                     *)
(***************************************************************************)
Fetched == resp # NoResponse
JsonBody == Fetched /\ resp.net = "ok" /\ resp.text.ok
BodyCode == Index(resp.text.v, "code")
BodyLiveStatus == Index(Index(resp.text.v, "data"), "live_status")
BodyStream ==
  Index(Index(Index(Index(resp.text.v, "data"), "playurl_info"), "playurl"), "stream")

AnyFlag == args.room_id.some \/ args.quality.some \/ args.format.some
BadRoomFlag == args.room_id.some /\ ~ParseU32(args.room_id.v).ok
GoodRoomFlag == args.room_id.some /\ ParseU32(args.room_id.v).ok
BadQualityFlag == args.quality.some /\ args.quality.v \notin {S_low, S_high}
GoodQualityFlag == args.quality.some /\ args.quality.v \in {S_low, S_high}
BadFormatFlag == args.format.some /\ args.format.v \notin {S_m3u8, S_flv}
GoodFormatFlag == args.format.some /\ args.format.v \in {S_m3u8, S_flv}

\* main is past the resolution of the quality (of the format)
PastQuality ==
  \/ pc \in {"format", "read_format", "fetch", "parse", "print"}
  \/ pc = "exit" /\ status \in {"ok", "err"}
PastFormat ==
  \/ pc \in {"fetch", "parse", "print"}
  \/ pc = "exit" /\ status \in {"ok", "err"}

\* every array parse_stream unwraps in the descriptor is an array
WellFormedDescriptor(d) ==
  /\ Index(d, "format").t = "arr"
  /\ \A f \in 1..Len(Index(d, "format").a) :
        LET fm == Index(d, "format").a[f]
        IN  /\ Index(fm, "codec").t = "arr"
            /\ \A c \in 1..Len(Index(fm, "codec").a) :
                  Index(Index(fm, "codec").a[c], "url_info").t = "arr"
WellFormedStream(st) == \A k \in 1..Len(st) : WellFormedDescriptor(st[k])

\* the <<codec, url_info entry>> leaves of a well-formed stream array, depth
\* first and left to right
CodecLeaves(c) ==
  [k \in 1..Len(Index(c, "url_info").a) |-> <<c, Index(c, "url_info").a[k]>>]
FormatLeaves(f) ==
  Concat([k \in 1..Len(Index(f, "codec").a) |-> CodecLeaves(Index(f, "codec").a[k])])
DescriptorLeaves(d) ==
  Concat([k \in 1..Len(Index(d, "format").a) |-> FormatLeaves(Index(d, "format").a[k])])
StreamLeaves(st) == Concat([k \in 1..Len(st) |-> DescriptorLeaves(st[k])])

\* host, base_url and extra of the leaf are strings
StringLeaf(l) ==
  /\ Index(l[2], "host").t = "str"
  /\ Index(l[1], "base_url").t = "str"
  /\ Index(l[2], "extra").t = "str"
\* host ++ base_url ++ extra of the leaf
LeafConcat(l) ==
  Index(l[2], "host").s \o Index(l[1], "base_url").s \o Index(l[2], "extra").s

\* the line is one or more ASCII digits
PlainNumber(s) == s # <<>> /\ \A i \in 1..Len(s) : IsAsciiDigit(s[i])
\* where the host marker is followed by a digit
MarkerDigitStarts(s) ==
  {i \in 1..Len(s) : LitAt(s, i, S_marker) /\ i + 18 <= Len(s) /\ IsAsciiDigit(s[i + 18])}
\* the digit run that follows the first such marker
MarkerDigits(s) ==
  LET p == Min(MarkerDigitStarts(s)) + 18
      ends == {j \in p..Len(s) : \A k \in p..j : IsAsciiDigit(s[k])}
  IN  SubSeq(s, p, Max(ends))

(***************************************************************************)
(* The flattening, apart from the text of each URL: parse_stream panics    *)
(* exactly on a stream array that is not well formed, and otherwise emits  *)
(* one URL per leaf, in depth-first left-to-right order.                   *)
(***************************************************************************)
FlattenOrderAndCount ==
  /\ (pc = "parse" /\ status = "panic") => ~WellFormedStream(stream)
  /\ pc \in {"print", "exit"} /\ status \in {"running", "ok"} =>
        /\ WellFormedStream(stream)
        /\ urls = [k \in 1..Len(StreamLeaves(stream)) |->
                     url_of(StreamLeaves(stream)[k][1], StreamLeaves(stream)[k][2])]

(***************************************************************************)
(* The properties.                                                         *)
(***************************************************************************)

\* C1: in read_quality and read_format, a line that is the selection 1 or 2
\* is accepted whatever lines were rejected before it: the read that
\* appends "1" (resp. "2") to the String sets the result to Low (resp.
\* High) in read_quality and to M3u8 (resp. Flv) in read_format.
C1_ValidSelectionAccepted ==
  [][/\ (pc = "read_quality" /\ line' = line \o <<"1">> \o LF) => res' = Ok("Low")
     /\ (pc = "read_quality" /\ line' = line \o <<"2">> \o LF) => res' = Ok("High")
     /\ (pc = "read_format" /\ line' = line \o <<"1">> \o LF) => res' = Ok("M3u8")
     /\ (pc = "read_format" /\ line' = line \o <<"2">> \o LF) => res' = Ok("Flv")]_vars

\* C2: once parse_stream has returned on a well-formed stream array whose
\* leaves hold strings, the URLs are host ++ base_url ++ extra of each
\* leaf, one per leaf, depth first and left to right.
C2_FlattenIsLeafConcat ==
  (/\ pc \in {"print", "exit"} /\ status \in {"running", "ok"}
   /\ WellFormedStream(stream)
   /\ \A k \in 1..Len(StreamLeaves(stream)) : StringLeaf(StreamLeaves(stream)[k]))
  => urls = [k \in 1..Len(StreamLeaves(stream)) |-> LeafConcat(StreamLeaves(stream)[k])]

\* C3: a JSON body whose code is a nonzero integer ends the run with the
\* ApiError value, whatever data holds; a body with code 0 and
\* data.live_status 0 ends it with the NotLiveError value; in both cases
\* no URL is printed and playurl_info is not read.
C3_ApiFailuresInOrder ==
  /\ (JsonBody /\ BodyCode.t = "int" /\ BodyCode.i # 0) =>
        /\ status = "err" /\ err = ApiError /\ pc = "exit"
        /\ printed = <<>> /\ "playurl_info" \notin accessed
  /\ (JsonBody /\ BodyCode = JInt(0) /\ BodyLiveStatus = JInt(0)) =>
        /\ status = "err" /\ err = NotLiveError /\ pc = "exit"
        /\ printed = <<>> /\ "playurl_info" \notin accessed

\* fetch_stream has answered ApiError to a body whose code is nonzero and
\* whose live_status is 0
C3_Witness ==
  /\ JsonBody /\ BodyCode.t = "int" /\ BodyCode.i # 0 /\ BodyLiveStatus = JInt(0)
  /\ status = "err" /\ err = ApiError

\* C4: a URL line is printed only after fetch_stream returned Ok and
\* parse_stream returned on the whole stream array, every descriptor of
\* which is well formed; a run that ended in an error or a panic printed
\* no URL.
C4_NoPartialResults ==
  /\ printed # <<>> =>
        /\ Fetched /\ fetch_stream(resp).kind = "ok"
        /\ stream = fetch_stream(resp).stream
        /\ WellFormedStream(stream)
        /\ pc \in {"print", "exit"} /\ status \in {"running", "ok"}
  /\ status \in {"usage", "err", "panic"} => printed = <<>>

\* parse_stream has panicked on the last descriptor of a stream array whose
\* first descriptor is well formed and yields URLs of the chosen format
C4_Witness ==
  /\ pc = "parse" /\ status = "panic" /\ printed = <<>>
  /\ Len(stream) = 2 /\ WellFormedDescriptor(stream[1])
  /\ ~WellFormedDescriptor(stream[2])
  /\ filter_urls(descriptor_urls(stream[1]).v, format.v) # <<>>

C6_RoomPromptNeverCrashes == ~(pc = "read_room_id" /\ status = "panic")

\* C7: a JSON body with code 0 and a nonzero live_status whose
\* data.playurl_info.playurl.stream is missing or no array ends the run
\* with the returned ResponseFormatError value.
C7_IncompleteBodyIsFormatError ==
  (/\ JsonBody /\ BodyCode = JInt(0)
   /\ BodyLiveStatus.t = "int" /\ BodyLiveStatus.i # 0
   /\ BodyStream.t # "arr")
  => (status = "err" /\ err = ResponseFormatError)

\* C8: the room id passed to fetch_stream and placed in the room_id query
\* parameter is strictly positive.
C8_RoomIdPositive ==
  /\ (pc \in {"fetch", "parse", "print"} /\ room_id.some) => room_id.v # <<"0">>
  /\ request.some => request.v.room_id # <<"0">>

\* C9: the first line read by read_room_id is parsed as the reference says:
\* a plain number N > 0 gives N; a line that holds the host marker followed
\* by the digits D gives D, whatever precedes the marker; any other line is
\* rejected.
C9_RoomIdParsingAgrees ==
  (pc = "read_room_id" /\ reads = 1) =>
     LET s == Trim(line)
     IN  /\ (PlainNumber(s) /\ StripZeros(s) # <<"0">>) =>
               (status = "running" /\ res = Ok(StripZeros(s)))
         /\ (~PlainNumber(s) /\ MarkerDigitStarts(s) # {}) =>
               (status = "running" /\ res = Ok(StripZeros(MarkerDigits(s))))
         /\ (~PlainNumber(s) /\ MarkerDigitStarts(s) = {}) =>
               (status = "running" /\ ~res.ok)

\* C10: pause() runs exactly in the runs that were given no flag and end
\* with Ok, and only once every kept URL has been printed; with any flag
\* given, well-formed or not, it never runs.
C10_PauseOnlyInteractiveSuccess ==
  /\ paused =>
        /\ ~AnyFlag /\ status = "ok" /\ pc = "exit"
        /\ fetch_stream(resp).kind = "ok" /\ WellFormedStream(stream)
        /\ printed = [k \in 1..Len(filtered) |-> trim_matches(filtered[k])]
        /\ filtered = filter_urls(urls, format.v)
  /\ (status = "ok" /\ ~AnyFlag) => paused
  /\ AnyFlag => ~paused

\* pause() has run in an interactive run in which parse_stream returned
\* URLs and none of them survived the filter
C10_Witness == paused /\ ~AnyFlag /\ urls # <<>> /\ printed = <<>>

=============================================================================
